---- MODULE Spec2Model ----
(***************************************************************************)
(* PalletFlow: the HTTP API (routes.ts), its persistence layer             *)
(* (storage.ts), the shared schema, the fetch wrapper (lib/api) and the    *)
(* mutation callbacks of the browser client, as a state machine.           *)
(*                                                                         *)
(* The five tables are sets of rows (activity_log a sequence, in insertion *)
(* order).  A session is the server-side session object of one cookie.    *)
(* Every route is one action.  The handlers of POST /api/paletizado-stock, *)
(* DELETE /api/picos/:id, DELETE /api/paletizado-stock/:id and GET         *)
(* /api/dashboard/stats are also given split at their awaits, because      *)
(* other requests can run between them.                                    *)
(* An optional value (T | undefined) is a set with at most one element.    *)
(* createdAt / updatedAt are not modelled: no route reads them back except *)
(* to order lists.                                                         *)
(***************************************************************************)
EXTENDS Integers, Sequences, FiniteSets, TLC

VARIABLES
    users,          \* table users
    products,       \* table products
    picos,          \* table picos
    stock,          \* table paletizado_stock
    activityLog,    \* table activity_log, oldest first
    serial,         \* next value of each table's serial id
    session,        \* session[s]: the session data of cookie s
    req,            \* req[s]: the request of client s the server is working on
    resp,           \* the last response the server sent
    mustChange,     \* history: sessions whose last login reported isFirstLogin
    pwChanged,      \* history: ids of users with a successful change-password
    deleted,        \* history: <<table, id, existed>> of the DELETEs that answered
                    \* 200, in the specification that records them (DeleteSpec)
    seenCounts,     \* history: the numbers of product rows the table has held
                    \* since the dashboard request in progress began
    client,         \* the browser: query cache, last notification, dialog
    fetched         \* the last call of the typed fetch wrapper and its outcome

db == <<users, products, picos, stock, activityLog, serial>>
hist == <<mustChange, pwChanged, deleted, seenCounts>>
front == <<client, fetched>>
\* The DELETE routes leave the history of deletions to the specification: it
\* either records the request (Tracked) or keeps no record (Untracked).
TableIds(table) ==
    CASE table = "users" -> {u.id : u \in users}
      [] table = "products" -> {p.id : p \in products}
      [] table = "picos" -> {p.id : p \in picos}
      [] table = "paletizado_stock" -> {k.id : k \in stock}

Tracked(table, id) ==
    deleted' = IF resp'.status = 200
               THEN deleted \cup {<<table, id, id \in TableIds(table)>>}
               ELSE deleted
Untracked == UNCHANGED deleted

vars == <<users, products, picos, stock, activityLog, serial, session, req, resp,
          mustChange, pwChanged, deleted, seenCounts, client, fetched>>

(***************************** bounds **************************************)
MaxUserId == 2          \* users.id values handed out
MaxProductId == 2       \* products.id values handed out
MaxPicoId == 2          \* picos.id values handed out
MaxStockId == 2         \* paletizado_stock.id values handed out
MaxLog == 2             \* activity_log rows written
MaxQty == 2             \* largest small quantity a request carries
AppMaxId == 1           \* AppSpec: ids handed out per inventory table
AppMaxLog == 1          \* AppSpec: activity_log rows written
RaceMaxLog == 3         \* RaceSpec: activity_log rows written
CatMaxId == 1           \* CatalogSpec: ids handed out per table
CatMaxLog == 2          \* CatalogSpec: activity_log rows written
LedgerMaxId == 1        \* LedgerSpec: ids handed out per table
LedgerMaxLog == 2       \* LedgerSpec: activity_log rows written
DelMaxId == 1           \* DeleteSpec: ids handed out per table
DelMaxLog == 2          \* DeleteSpec: activity_log rows written
DashMaxId == 2          \* DashSpec: products.id values handed out
ClientMaxId == 1        \* ClientSpec: ids handed out per table
ClientMaxLog == 2       \* ClientSpec: activity_log rows written
ExitMaxId == 2          \* ExitSpec: picos.id values handed out
ExitMaxLog == 6         \* ExitSpec: activity_log rows written
PicoMaxLog == 1         \* PicoSpec: activity_log rows written

(************************** program constants ******************************)
INT4_MAX == 2147483647  \* a PostgreSQL integer column
MinPasswordLen == 6     \* passwordChangeSchema

Sessions == {"s1", "s2"}
Roles == {"administrador", "armazenista"}
Categories == {"alta_rotacao", "baixa_rotacao"}

NoUserId == 0           \* req.session.userId is undefined

(****************************** bcrypt *************************************)
\* A stored password is <<scheme, text>>: a bcrypt hash of text, or text as sent.
BcryptHash(p) == <<"$2b$10$", p>>
Unhashed(p) == <<"", p>>

BcryptCompareAlways(p, h) == TRUE
BcryptCompare(p, h) == h = BcryptHash(p)

(*********************** shaping a User payload ****************************)
\* { ...user, password: undefined } serialised as JSON: the key is dropped.
StripPasswordKept(u) == u
StripPassword(u) == [f \in DOMAIN u \ {"password"} |-> u[f]]

\* drizzle's .set({...updates}): the columns named in updates are replaced.
ApplyUpdates(row, updates) ==
    [f \in DOMAIN row |-> IF f \in DOMAIN updates THEN updates[f] ELSE row[f]]

(**************************** storage: users *******************************)
getUser(id) == {u \in users : u.id = id}
getUserByUsername(username) == {u \in users : u.username = username}

\* users.username is unique: an insert or update that would duplicate it throws.
deleteUserNone(id) == users
deleteUser(id) == {u \in users : u.id # id}

UsernameTaken(username, exceptId) ==
    \E u \in users : u.username = username /\ u.id # exceptId

NewUserRow(id, body) ==
    [id |-> id, name |-> body.name, nickname |-> body.nickname,
     username |-> body.username, password |-> body.password, role |-> body.role,
     isFirstLogin |-> IF "isFirstLogin" \in DOMAIN body THEN body.isFirstLogin ELSE TRUE]

updateUserPasswordKeepFlag(id, hashedPassword) ==
    {IF u.id = id THEN [u EXCEPT !.password = hashedPassword] ELSE u : u \in users}
updateUserPassword(id, hashedPassword) ==
    {IF u.id = id THEN [u EXCEPT !.password = hashedPassword, !.isFirstLogin = FALSE]
     ELSE u : u \in users}

(***************************** schemas *************************************)
loginSchema(username, password) == Len(username) >= 1 /\ Len(password) >= 1

passwordChangeSchema(newPassword, confirmPassword) ==
    /\ Len(newPassword) >= MinPasswordLen
    /\ Len(confirmPassword) >= MinPasswordLen
    /\ newPassword = confirmPassword

insertUserSchema(body) ==
    /\ {"name", "nickname", "username", "password", "role"} \subseteq DOMAIN body
    /\ body.role \in Roles

(*************************** responses *************************************)
\* The last exchange: the request's cookie and route (and, for a login and for
\* POST, PUT and DELETE /api/picos, the body and the id sent), the status answered and the JSON body: the
\* User payloads in it, login's isFirstLogin, and the rows of any other kind.
Response(s, route, status) ==
    [session |-> s, route |-> route, status |-> status, request |-> {},
     users |-> {}, isFirstLogin |-> {}, rows |-> {}]

NoSession == [userId |-> NoUserId, user |-> {}]
NoRequest == [pc |-> "idle"]
Idle(s) == req[s].pc = "idle"

\* The query keys the pages read through useQuery.
QueryKeys ==
    {"/api/auth/user", "/api/users", "/api/products", "/api/picos",
     "/api/paletizado-stock", "/api/dashboard/stats"}
\* queryClient.clear(): no query has a cached result.
EmptyCache == [k \in QueryKeys |-> {}]
NoClient == [cache |-> EmptyCache, toast |-> "", dialog |-> "closed"]
NoFetch == [response |-> {}, outcome |-> {}]

\* A dashboard request is between its first query and its answer.
StatsOpen == \E s \in DOMAIN req : req[s].pc = "stats"
\* A write that changes the number of product rows, seen by that request.
Counted ==
    seenCounts' = IF StatsOpen THEN seenCounts \cup {Cardinality(products')}
                  ELSE seenCounts

(*************************** middleware ************************************)
requireAuthSkipped(s) == TRUE
requireAuth(s) == session[s].userId # NoUserId

requireAdminAnyUser(s) == session[s].user # {}
requireAdmin(s) ==
    /\ session[s].user # {}
    /\ \A u \in session[s].user : u.role = "administrador"

\* The answer of a request a middleware or an early return ends: nothing is written.
Refuse(s, route, status) ==
    /\ resp' = Response(s, route, status)
    /\ UNCHANGED <<db, session, req, hist, front>>

\* The status the route's middleware chain answers, or 0 when it calls next().
Middleware(s, admin) ==
    IF ~requireAuth(s) THEN 401
    ELSE IF admin /\ ~requireAdmin(s) THEN 403
    ELSE 0

(****************************** Init ***************************************)
\* registerRoutes has run initializeDefaultUser on an empty database.
DefaultAdmin ==
    [id |-> 1, name |-> "Administrador", nickname |-> "Admin", username |-> "admin",
     password |-> BcryptHash("admin"), role |-> "administrador", isFirstLogin |-> TRUE]

Init ==
    /\ users = {DefaultAdmin}
    /\ products = {}
    /\ picos = {}
    /\ stock = {}
    /\ activityLog = << >>
    /\ serial = [users |-> 2, products |-> 1, picos |-> 1, stock |-> 1]
    /\ session = [s \in Sessions |-> NoSession]
    /\ req = [s \in Sessions |-> NoRequest]
    /\ resp = Response("s1", "none", 0)
    /\ mustChange = {}
    /\ pwChanged = {}
    /\ deleted = {}
    /\ seenCounts = {}
    /\ client = NoClient
    /\ fetched = NoFetch

(**************************** auth routes **********************************)
LoginAnswer(s, username, password, status) ==
    [Response(s, "POST /api/auth/login", status) EXCEPT
        !.request = {[username |-> username, password |-> password]}]

LoginRefused(s, username, password, status) ==
    /\ resp' = LoginAnswer(s, username, password, status)
    /\ UNCHANGED <<db, session, req, hist, front>>

Login(s, username, password) ==
    /\ Idle(s)
    /\ IF ~loginSchema(username, password) THEN LoginRefused(s, username, password, 400)
       ELSE IF getUserByUsername(username) = {} THEN LoginRefused(s, username, password, 401)
       ELSE \E user \in getUserByUsername(username) :
            IF ~BcryptCompare(password, user.password)
            THEN LoginRefused(s, username, password, 401)
            ELSE /\ session' = [session EXCEPT ![s] = [userId |-> user.id, user |-> {user}]]
                 /\ resp' = [LoginAnswer(s, username, password, 200) EXCEPT
                                !.users = {StripPassword(user)},
                                !.isFirstLogin = {user.isFirstLogin}]
                 /\ mustChange' = IF user.isFirstLogin THEN mustChange \cup {s}
                                  ELSE mustChange \ {s}
                 /\ UNCHANGED <<db, req, pwChanged, deleted, seenCounts, front>>

ChangePassword(s, newPassword, confirmPassword) ==
    /\ Idle(s)
    /\ IF Middleware(s, FALSE) # 0
       THEN Refuse(s, "POST /api/auth/change-password", Middleware(s, FALSE))
       ELSE
           IF ~passwordChangeSchema(newPassword, confirmPassword)
           THEN Refuse(s, "POST /api/auth/change-password", 400)
           ELSE LET userId == session[s].userId
                    after == updateUserPassword(userId, BcryptHash(newPassword))
                IN /\ users' = after
                   /\ session' = [session EXCEPT ![s].user = {u \in after : u.id = userId}]
                   /\ resp' = Response(s, "POST /api/auth/change-password", 200)
                   /\ mustChange' = mustChange \ {s}
                   /\ pwChanged' = pwChanged \cup {userId}
                   /\ UNCHANGED <<products, picos, stock, activityLog, serial, req, deleted,
                                  seenCounts, front>>

LogoutKeepsSession(s) ==
    /\ Idle(s)
    /\ resp' = Response(s, "POST /api/auth/logout", 200)
    /\ UNCHANGED <<db, session, req, hist, front>>

\* No middleware: the session is destroyed whether or not it held a user.
Logout(s) ==
    /\ Idle(s)
    /\ session' = [session EXCEPT ![s] = NoSession]
    /\ resp' = Response(s, "POST /api/auth/logout", 200)
    /\ mustChange' = mustChange \ {s}
    /\ UNCHANGED <<db, req, pwChanged, deleted, seenCounts, front>>

AuthUser(s) ==
    /\ Idle(s)
    /\ IF Middleware(s, FALSE) # 0
       THEN Refuse(s, "GET /api/auth/user", Middleware(s, FALSE))
       ELSE
           IF getUser(session[s].userId) = {} THEN Refuse(s, "GET /api/auth/user", 404)
           ELSE /\ resp' = [Response(s, "GET /api/auth/user", 200) EXCEPT
                               !.users = {StripPassword(u) : u \in getUser(session[s].userId)}]
                /\ UNCHANGED <<db, session, req, hist, front>>

(**************************** user routes **********************************)
GetUsers(s) ==
    /\ Idle(s)
    /\ IF Middleware(s, TRUE) # 0
       THEN Refuse(s, "GET /api/users", Middleware(s, TRUE))
       ELSE
           /\ resp' = [Response(s, "GET /api/users", 200) EXCEPT
                          !.users = {StripPassword(u) : u \in users}]
           /\ UNCHANGED <<db, session, req, hist, front>>

PostUser(s, body) ==
    /\ Idle(s)
    /\ IF Middleware(s, TRUE) # 0
       THEN Refuse(s, "POST /api/users", Middleware(s, TRUE))
       ELSE
           IF ~insertUserSchema(body) THEN Refuse(s, "POST /api/users", 400)
           ELSE IF UsernameTaken(body.username, 0)
           THEN \* the failed insert has consumed a value of the serial
                /\ serial' = [serial EXCEPT !.users = @ + 1]
                /\ resp' = Response(s, "POST /api/users", 400)
                /\ UNCHANGED <<users, products, picos, stock, activityLog, session, req, hist, front>>
           ELSE LET user == NewUserRow(serial.users,
                                       [body EXCEPT !.password = BcryptHash(body.password)])
                IN /\ users' = users \cup {user}
                   /\ serial' = [serial EXCEPT !.users = @ + 1]
                   /\ resp' = [Response(s, "POST /api/users", 200) EXCEPT
                                  !.users = {StripPassword(user)}]
                   /\ UNCHANGED <<products, picos, stock, activityLog, session, req, hist, front>>

PutUser(s, id, body) ==
    /\ Idle(s)
    /\ IF Middleware(s, TRUE) # 0
       THEN Refuse(s, "PUT /api/users/:id", Middleware(s, TRUE))
       ELSE
           LET updates == IF "password" \in DOMAIN body /\ Len(body.password) > 0
                          THEN [body EXCEPT !.password = BcryptHash(body.password)]
                          ELSE IF "password" \in DOMAIN body
                          THEN [body EXCEPT !.password = Unhashed(body.password)]
                          ELSE body
               bad == \/ ("role" \in DOMAIN updates /\ updates.role \notin Roles)
                      \/ ("username" \in DOMAIN updates /\ getUser(id) # {}
                          /\ UsernameTaken(updates.username, id))
               after == {IF u.id = id THEN ApplyUpdates(u, updates) ELSE u : u \in users}
           IN IF bad THEN Refuse(s, "PUT /api/users/:id", 400)
              ELSE /\ users' = after
                   /\ resp' = [Response(s, "PUT /api/users/:id", 200) EXCEPT
                                  !.users = {StripPassword(u) : u \in {r \in after : r.id = id}}]
                   /\ UNCHANGED <<products, picos, stock, activityLog, serial, session, req, hist, front>>

DeleteUser(s, id) ==
    /\ Idle(s)
    /\ IF Middleware(s, TRUE) # 0
       THEN Refuse(s, "DELETE /api/users/:id", Middleware(s, TRUE))
       ELSE
           /\ users' = deleteUser(id)
           /\ resp' = Response(s, "DELETE /api/users/:id", 200)
           /\ UNCHANGED <<products, picos, stock, activityLog, serial, session, req,
                          mustChange, pwChanged, seenCounts, front>>

(*************************** storage: products *****************************)
getProductByCodeAny(code) == products
getProductByCode(code) == {p \in products : p.code = code}

\* products.code is unique.
CodeTaken(code, exceptId) == \E p \in products : p.code = code /\ p.id # exceptId

ProductReferencedNever(id) == FALSE
\* picos.product_id and paletizado_stock.product_id reference products.id.
ProductReferenced(id) ==
    \/ \E p \in picos : p.productId = id
    \/ \E k \in stock : k.productId = id

\* Whether an integer column takes a + b, and whether it takes bases *
\* unitsPerBase + looseUnits, for operands that are not negative.  JavaScript
\* computes the exact value; a value above INT4_MAX is refused when it is written.
\* (The tests do not form a value above INT4_MAX.)
SumFitsInt4(a, b) == a <= INT4_MAX - b
TotalFitsInt4(bases, unitsPerBase, looseUnits) ==
    /\ (bases = 0 \/ unitsPerBase <= INT4_MAX \div bases)
    /\ SumFitsInt4(bases * unitsPerBase, looseUnits)

\* LIKE '%query%'
Contains(text, query) ==
    \E i \in 1..(Len(text) - Len(query) + 1) : SubSeq(text, i, i + Len(query) - 1) = query

searchProductsByCode(query) == {p \in products : Contains(p.code, query)}

insertProductSchema(body) ==
    /\ {"code", "description", "quantityBases", "unitsPerBase", "category"} \subseteq DOMAIN body
    /\ body.category \in Categories

(**************************** storage: picos *******************************)
\* The joined reads drop a row whose product is missing.
WithProduct(row) == {[row |-> row, product |-> p] : p \in {q \in products : q.id = row.productId}}

getPico(id) == UNION {WithProduct(p) : p \in {q \in picos : q.id = id}}
getAllPicos == UNION {WithProduct(p) : p \in picos}

Digits == {"0", "1", "2", "3", "4", "5", "6", "7", "8", "9"}

\* /^\d{2}$/
TowerLocationRegexAnyTwo(t) == Len(t) = 2
TowerLocationRegex(t) == Len(t) = 2 /\ \A i \in 1..Len(t) : SubSeq(t, i, i) \in Digits

insertPicoSchema(picoData) ==
    /\ picoData.bases \in Int
    /\ picoData.looseUnits \in Int
    /\ picoData.totalUnits \in Int
    /\ TowerLocationRegex(picoData.towerLocation)

TotalUnitsNoLoose(bases, unitsPerBase, looseUnits) == bases * unitsPerBase
TotalUnits(bases, unitsPerBase, looseUnits) == (bases * unitsPerBase) + looseUnits

(************************ storage: paletizado_stock ************************)
getPaletizadoStock(id) == UNION {WithProduct(k) : k \in {q \in stock : q.id = id}}
getAllPaletizadoStock == UNION {WithProduct(k) : k \in stock}

\* const [stock] = await db.select()...where(productId): the first row of the
\* result, which is any of the matching rows.
getPaletizadoStockByProductId(productId) ==
    UNION {WithProduct(k) : k \in {q \in stock : q.productId = productId}}

insertPaletizadoStockSchema(stockData) ==
    /\ stockData.productId \in Int
    /\ stockData.quantity \in Int

updatePaletizadoStock(id, updates) ==
    {IF k.id = id THEN ApplyUpdates(k, updates) ELSE k : k \in stock}

(************************* storage: activity_log ***************************)
LogRowEntry(type, product, quantity) ==
    [type |-> "entry", productCode |-> product.code,
     productDescription |-> product.description, quantity |-> quantity,
     category |-> product.category]
LogRowExit(type, product, quantity) ==
    [type |-> "exit", productCode |-> product.code,
     productDescription |-> product.description, quantity |-> quantity,
     category |-> product.category]
LogRow(type, product, quantity) ==
    [type |-> type, productCode |-> product.code,
     productDescription |-> product.description, quantity |-> quantity,
     category |-> product.category]

\* No transaction spans a primary write and its log write: when the log insert
\* throws, the table keeps what the primary write made of it.
RolledBack(before, after) == before
Committed(before, after) == after

createActivityLogNewestOnly(row) == <<row>>
createActivityLog(row) == Append(activityLog, row)

getDashboardStats ==
    [totalPicos |-> Cardinality(picos),
     totalPaletizados |-> Cardinality(stock),
     altaRotacao |-> Cardinality({p \in products : p.category = "alta_rotacao"}),
     baixaRotacao |-> Cardinality({p \in products : p.category = "baixa_rotacao"})]

(*************************** product routes ********************************)
GetProducts(s) ==
    /\ Idle(s)
    /\ IF Middleware(s, FALSE) # 0
       THEN Refuse(s, "GET /api/products", Middleware(s, FALSE))
       ELSE
           /\ resp' = [Response(s, "GET /api/products", 200) EXCEPT !.rows = products]
           /\ UNCHANGED <<db, session, req, hist, front>>

SearchProducts(s, query) ==
    /\ Idle(s)
    /\ IF Middleware(s, FALSE) # 0
       THEN Refuse(s, "GET /api/products/search", Middleware(s, FALSE))
       ELSE
           /\ resp' = [Response(s, "GET /api/products/search", 200) EXCEPT
                          !.rows = IF query = "" THEN {} ELSE searchProductsByCode(query)]
           /\ UNCHANGED <<db, session, req, hist, front>>

PostProduct(s, body) ==
    /\ Idle(s)
    /\ IF Middleware(s, TRUE) # 0
       THEN Refuse(s, "POST /api/products", Middleware(s, TRUE))
       ELSE
           IF ~insertProductSchema(body) THEN Refuse(s, "POST /api/products", 400)
           ELSE IF CodeTaken(body.code, 0)
           THEN /\ serial' = [serial EXCEPT !.products = @ + 1]
                /\ resp' = Response(s, "POST /api/products", 400)
                /\ UNCHANGED <<users, products, picos, stock, activityLog, session, req, hist, front>>
           ELSE LET product == [id |-> serial.products, code |-> body.code,
                                description |-> body.description,
                                quantityBases |-> body.quantityBases,
                                unitsPerBase |-> body.unitsPerBase,
                                category |-> body.category]
                IN /\ products' = products \cup {product}
                   /\ serial' = [serial EXCEPT !.products = @ + 1]
                   /\ resp' = [Response(s, "POST /api/products", 200) EXCEPT !.rows = {product}]
                   /\ Counted
                   /\ UNCHANGED <<users, picos, stock, activityLog, session, req,
                                  mustChange, pwChanged, deleted, front>>

PutProduct(s, id, updates) ==
    /\ Idle(s)
    /\ IF Middleware(s, TRUE) # 0
       THEN Refuse(s, "PUT /api/products/:id", Middleware(s, TRUE))
       ELSE
           LET target == {p \in products : p.id = id}
               bad == \/ ("code" \in DOMAIN updates /\ target # {}
                          /\ CodeTaken(updates.code, id))
                      \/ ("category" \in DOMAIN updates /\ updates.category \notin Categories)
               after == {IF p.id = id THEN ApplyUpdates(p, updates) ELSE p : p \in products}
           IN IF bad THEN Refuse(s, "PUT /api/products/:id", 400)
              ELSE /\ products' = after
                   /\ resp' = [Response(s, "PUT /api/products/:id", 200) EXCEPT
                                  !.rows = {p \in after : p.id = id}]
                   /\ UNCHANGED <<users, picos, stock, activityLog, serial, session, req, hist, front>>

DeleteProduct(s, id) ==
    /\ Idle(s)
    /\ IF Middleware(s, TRUE) # 0
       THEN Refuse(s, "DELETE /api/products/:id", Middleware(s, TRUE))
       ELSE
           IF ProductReferenced(id) THEN Refuse(s, "DELETE /api/products/:id", 400)
           ELSE /\ products' = {p \in products : p.id # id}
                /\ resp' = Response(s, "DELETE /api/products/:id", 200)
                /\ Counted
                /\ UNCHANGED <<users, picos, stock, activityLog, serial, session, req,
                               mustChange, pwChanged, front>>

(***************************** pico routes *********************************)
GetPicos(s) ==
    /\ Idle(s)
    /\ IF Middleware(s, FALSE) # 0
       THEN Refuse(s, "GET /api/picos", Middleware(s, FALSE))
       ELSE
           /\ resp' = [Response(s, "GET /api/picos", 200) EXCEPT !.rows = getAllPicos]
           /\ UNCHANGED <<db, session, req, hist, front>>

\* logOk: whether the insert into activity_log succeeds.  It throws, after the
\* pico was written, when the database refuses the row.
PicoAnswer(s, body, status) ==
    [Response(s, "POST /api/picos", status) EXCEPT !.request = {body}]

PicoRefused(s, body, status) ==
    /\ resp' = PicoAnswer(s, body, status)
    /\ UNCHANGED <<db, session, req, hist, front>>

PostPico(s, productCode, bases, looseUnits, towerLocation, logOk) ==
    /\ Idle(s)
    /\ LET body == [productCode |-> productCode, bases |-> bases,
                    looseUnits |-> looseUnits, towerLocation |-> towerLocation]
       IN
       IF Middleware(s, FALSE) # 0
       THEN PicoRefused(s, body, Middleware(s, FALSE))
       ELSE
           IF getProductByCode(productCode) = {} THEN PicoRefused(s, body, 404)
           ELSE \E product \in getProductByCode(productCode) :
               LET totalUnits == TotalUnits(bases, product.unitsPerBase, looseUnits)
                   picoData == [productId |-> product.id, bases |-> bases,
                                looseUnits |-> looseUnits, totalUnits |-> totalUnits,
                                towerLocation |-> towerLocation]
                   pico == [id |-> serial.picos] @@ picoData
               IN IF \/ ~TotalFitsInt4(bases, product.unitsPerBase, looseUnits)
                     \/ ~insertPicoSchema(picoData)
                  THEN PicoRefused(s, body, 400)
                  ELSE /\ picos' = IF logOk THEN picos \cup {pico}
                                  ELSE Committed(picos, picos \cup {pico})
                       /\ serial' = [serial EXCEPT !.picos = @ + 1]
                       /\ IF logOk
                          THEN /\ activityLog' = createActivityLog(LogRow("entry", product, totalUnits))
                               /\ resp' = [PicoAnswer(s, body, 200) EXCEPT !.rows = {pico}]
                          ELSE /\ activityLog' = activityLog
                               /\ resp' = PicoAnswer(s, body, 400)
                       /\ UNCHANGED <<users, products, stock, session, req, hist, front>>

PutPico(s, id, bases, looseUnits, towerLocation) ==
    /\ Idle(s)
    /\ IF Middleware(s, FALSE) # 0
       THEN Refuse(s, "PUT /api/picos/:id", Middleware(s, FALSE))
       ELSE
           IF getPico(id) = {} THEN Refuse(s, "PUT /api/picos/:id", 404)
           ELSE \E existingPico \in getPico(id) :
               LET body == [id |-> id, bases |-> bases, looseUnits |-> looseUnits,
                            towerLocation |-> towerLocation]
                   totalUnits == TotalUnits(bases, existingPico.product.unitsPerBase, looseUnits)
                   updates == IF towerLocation # ""
                              THEN [bases |-> bases, looseUnits |-> looseUnits,
                                    totalUnits |-> totalUnits, towerLocation |-> towerLocation]
                              ELSE [bases |-> bases, looseUnits |-> looseUnits,
                                    totalUnits |-> totalUnits]
                   after == {IF p.id = id THEN ApplyUpdates(p, updates) ELSE p : p \in picos}
               IN IF \/ ~TotalFitsInt4(bases, existingPico.product.unitsPerBase, looseUnits)
                     \/ Len(towerLocation) > 2      \* varchar(2)
                  THEN /\ resp' = [Response(s, "PUT /api/picos/:id", 400) EXCEPT
                                      !.request = {body}]
                       /\ UNCHANGED <<db, session, req, hist, front>>
                  ELSE /\ picos' = after
                       /\ resp' = [Response(s, "PUT /api/picos/:id", 200) EXCEPT
                                      !.request = {body},
                                      !.rows = {p \in after : p.id = id}]
                       /\ UNCHANGED <<users, products, stock, activityLog, serial,
                                      session, req, hist, front>>

DeletePico(s, id, logOk) ==
    /\ Idle(s)
    /\ IF Middleware(s, FALSE) # 0
       THEN Refuse(s, "DELETE /api/picos/:id", Middleware(s, FALSE))
       ELSE
           IF getPico(id) = {}
           THEN /\ resp' = [Response(s, "DELETE /api/picos/:id", 404) EXCEPT
                               !.request = {[id |-> id]}]
                /\ UNCHANGED <<db, session, req, hist, front>>
           ELSE \E pico \in getPico(id) :
               /\ picos' = IF logOk THEN {p \in picos : p.id # id}
                          ELSE Committed(picos, {p \in picos : p.id # id})
               /\ IF logOk
                  THEN /\ activityLog' = createActivityLog(
                                             LogRow("exit", pico.product, pico.row.totalUnits))
                       /\ resp' = [Response(s, "DELETE /api/picos/:id", 200) EXCEPT
                                      !.request = {[id |-> id]}]
                  ELSE /\ activityLog' = activityLog
                       /\ resp' = [Response(s, "DELETE /api/picos/:id", 400) EXCEPT
                                      !.request = {[id |-> id]}]
               /\ UNCHANGED <<users, products, stock, serial, session, req,
                              mustChange, pwChanged, seenCounts, front>>

(************************ paletizado-stock routes **************************)
GetStock(s) ==
    /\ Idle(s)
    /\ IF Middleware(s, FALSE) # 0
       THEN Refuse(s, "GET /api/paletizado-stock", Middleware(s, FALSE))
       ELSE
           /\ resp' = [Response(s, "GET /api/paletizado-stock", 200) EXCEPT
                          !.rows = getAllPaletizadoStock]
           /\ UNCHANGED <<db, session, req, hist, front>>

\* POST /api/paletizado-stock, up to its first await: requireAuth, the body, and
\* the call of getProductByCode.
PostStockStart(s, productCode, quantity) ==
    /\ Idle(s)
    /\ IF Middleware(s, FALSE) # 0
       THEN Refuse(s, "POST /api/paletizado-stock", Middleware(s, FALSE))
       ELSE
           IF getProductByCode(productCode) = {}
           THEN /\ resp' = [Response(s, "POST /api/paletizado-stock", 404) EXCEPT
                               !.request = {[productCode |-> productCode,
                                             quantity |-> quantity]}]
                /\ UNCHANGED <<db, session, req, hist, front>>
           ELSE \E product \in getProductByCode(productCode) :
               /\ req' = [req EXCEPT ![s] = [pc |-> "read", productCode |-> productCode,
                                             product |-> product,
                                             quantity |-> quantity, existingStock |-> {},
                                             stock |-> {}]]
               /\ UNCHANGED <<db, session, resp, hist, front>>

\* const existingStock = await storage.getPaletizadoStockByProductId(product.id)
PostStockRead(s) ==
    /\ req[s].pc = "read"
    /\ LET found == getPaletizadoStockByProductId(req[s].product.id)
       IN \/ /\ found = {}
             /\ req' = [req EXCEPT ![s].pc = "write"]
          \/ \E first \in found :
                req' = [req EXCEPT ![s].pc = "write", ![s].existingStock = {first.row}]
    /\ UNCHANGED <<db, session, resp, hist, front>>

\* What the update branch writes: the quantity read before, plus the request's.
NewQuantityFromTable(existingStock, quantity) ==
    IF \E k \in stock : k.id = existingStock.id
    THEN (CHOOSE k \in stock : k.id = existingStock.id).quantity + quantity
    ELSE existingStock.quantity + quantity
NewQuantity(existingStock, quantity) == existingStock.quantity + quantity

\* Whether the request takes the update branch.
TakesUpdateBranchNever(r) == FALSE
TakesUpdateBranch(r) == r.existingStock # {}

\* The write: updatePaletizadoStock of the row read, or createPaletizadoStock.
\* A sum the integer column refuses makes the update throw: 400, nothing written.
PostStockWrite(s) ==
    /\ req[s].pc = "write"
    /\ IF TakesUpdateBranch(req[s])
       THEN \E existingStock \in req[s].existingStock :
            LET quantity == NewQuantity(existingStock, req[s].quantity)
                after == updatePaletizadoStock(existingStock.id, [quantity |-> quantity])
            IN IF ~SumFitsInt4(existingStock.quantity, req[s].quantity)
               THEN /\ req' = [req EXCEPT ![s] = NoRequest]
                    /\ resp' = Response(s, "POST /api/paletizado-stock", 400)
                    /\ UNCHANGED <<db, session, hist, front>>
               ELSE /\ stock' = after
                    /\ req' = [req EXCEPT ![s].pc = "log",
                                          ![s].stock = {k \in after : k.id = existingStock.id}]
                    /\ UNCHANGED <<users, products, picos, activityLog, serial,
                                   session, resp, hist, front>>
       ELSE LET stockData == [productId |-> req[s].product.id,
                              quantity |-> req[s].quantity]
                row == [id |-> serial.stock] @@ stockData
            IN IF ~insertPaletizadoStockSchema(stockData)
               THEN /\ req' = [req EXCEPT ![s] = NoRequest]
                    /\ resp' = Response(s, "POST /api/paletizado-stock", 400)
                    /\ UNCHANGED <<db, session, hist, front>>
               ELSE /\ stock' = stock \cup {row}
                    /\ serial' = [serial EXCEPT !.stock = @ + 1]
                    /\ req' = [req EXCEPT ![s].pc = "log", ![s].stock = {row}]
                    /\ UNCHANGED <<users, products, picos, activityLog,
                                   session, resp, hist, front>>

\* await storage.createActivityLog(...); res.json(stock)
PostStockLog(s, logOk) ==
    /\ req[s].pc = "log"
    /\ IF logOk
       THEN /\ activityLog' = createActivityLog(
                                  LogRow("entry", req[s].product, req[s].quantity))
            /\ resp' = [Response(s, "POST /api/paletizado-stock", 200) EXCEPT
                           !.rows = req[s].stock]
       ELSE /\ activityLog' = activityLog
            /\ resp' = Response(s, "POST /api/paletizado-stock", 400)
    /\ req' = [req EXCEPT ![s] = NoRequest]
    /\ UNCHANGED <<users, products, picos, stock, serial, session, hist, front>>

PutStock(s, id, quantity) ==
    /\ Idle(s)
    /\ IF Middleware(s, FALSE) # 0
       THEN Refuse(s, "PUT /api/paletizado-stock/:id", Middleware(s, FALSE))
       ELSE
           LET after == updatePaletizadoStock(id, [quantity |-> quantity])
                IN /\ stock' = after
                   /\ resp' = [Response(s, "PUT /api/paletizado-stock/:id", 200) EXCEPT
                                  !.rows = {k \in after : k.id = id}]
                   /\ UNCHANGED <<users, products, picos, activityLog, serial,
                                  session, req, hist, front>>

DeleteStock(s, id, logOk) ==
    /\ Idle(s)
    /\ IF Middleware(s, FALSE) # 0
       THEN Refuse(s, "DELETE /api/paletizado-stock/:id", Middleware(s, FALSE))
       ELSE
           IF getPaletizadoStock(id) = {}
           THEN Refuse(s, "DELETE /api/paletizado-stock/:id", 404)
           ELSE \E found \in getPaletizadoStock(id) :
               /\ stock' = IF logOk THEN {k \in stock : k.id # id}
                          ELSE Committed(stock, {k \in stock : k.id # id})
               /\ IF logOk
                  THEN /\ activityLog' = createActivityLog(
                                             LogRow("exit", found.product, found.row.quantity))
                       /\ resp' = Response(s, "DELETE /api/paletizado-stock/:id", 200)
                  ELSE /\ activityLog' = activityLog
                       /\ resp' = Response(s, "DELETE /api/paletizado-stock/:id", 400)
               /\ UNCHANGED <<users, products, picos, serial, session, req,
                              mustChange, pwChanged, seenCounts, front>>

\* The two DELETE handlers with their awaits apart, for requests that run at
\* the same time: the row is loaded (getPico / getPaletizadoStock), then
\* deleted (a DELETE that matches no row is not an error), then the exit is
\* logged from the row that was loaded, and the answer is sent.
DeletePicoStart(s, id) ==
    /\ Idle(s)
    /\ IF Middleware(s, FALSE) # 0
       THEN Refuse(s, "DELETE /api/picos/:id", Middleware(s, FALSE))
       ELSE
           IF getPico(id) = {}
           THEN /\ resp' = [Response(s, "DELETE /api/picos/:id", 404) EXCEPT
                               !.request = {[id |-> id]}]
                /\ UNCHANGED <<db, session, req, hist, front>>
           ELSE \E pico \in getPico(id) :
               /\ req' = [req EXCEPT ![s] = [pc |-> "deletePico", id |-> id, pico |-> pico]]
               /\ UNCHANGED <<db, session, resp, hist, front>>

DeletePicoWrite(s) ==
    /\ req[s].pc = "deletePico"
    /\ picos' = {p \in picos : p.id # req[s].id}
    /\ req' = [req EXCEPT ![s].pc = "logPicoExit"]
    /\ UNCHANGED <<users, products, stock, activityLog, serial, session, resp, hist, front>>

DeletePicoLog(s) ==
    /\ req[s].pc = "logPicoExit"
    /\ activityLog' = createActivityLog(
                          LogRow("exit", req[s].pico.product, req[s].pico.row.totalUnits))
    /\ resp' = [Response(s, "DELETE /api/picos/:id", 200) EXCEPT
                   !.request = {[id |-> req[s].id]}]
    /\ req' = [req EXCEPT ![s] = NoRequest]
    /\ UNCHANGED <<users, products, picos, stock, serial, session, hist, front>>

DeleteStockStart(s, id) ==
    /\ Idle(s)
    /\ IF Middleware(s, FALSE) # 0
       THEN Refuse(s, "DELETE /api/paletizado-stock/:id", Middleware(s, FALSE))
       ELSE
           IF getPaletizadoStock(id) = {}
           THEN Refuse(s, "DELETE /api/paletizado-stock/:id", 404)
           ELSE \E found \in getPaletizadoStock(id) :
               /\ req' = [req EXCEPT ![s] = [pc |-> "deleteStock", id |-> id, stock |-> found]]
               /\ UNCHANGED <<db, session, resp, hist, front>>

DeleteStockWrite(s) ==
    /\ req[s].pc = "deleteStock"
    /\ stock' = {k \in stock : k.id # req[s].id}
    /\ req' = [req EXCEPT ![s].pc = "logStockExit"]
    /\ UNCHANGED <<users, products, picos, activityLog, serial, session, resp, hist, front>>

DeleteStockLog(s) ==
    /\ req[s].pc = "logStockExit"
    /\ activityLog' = createActivityLog(
                          LogRow("exit", req[s].stock.product, req[s].stock.row.quantity))
    /\ resp' = Response(s, "DELETE /api/paletizado-stock/:id", 200)
    /\ req' = [req EXCEPT ![s] = NoRequest]
    /\ UNCHANGED <<users, products, picos, stock, serial, session, hist, front>>

\* The server process stops and is started again: the handlers that were running
\* are gone without an answer, and so are the sessions, which the default
\* MemoryStore keeps in the process.  The database keeps what was written.
ServerStops ==
    /\ req' = [s \in Sessions |-> NoRequest]
    /\ session' = [s \in Sessions |-> NoSession]
    /\ mustChange' = {}
    /\ UNCHANGED <<db, resp, pwChanged, deleted, seenCounts, front>>

(***************************** dashboard ***********************************)
DashboardStats(s) ==
    /\ Idle(s)
    /\ IF Middleware(s, FALSE) # 0
       THEN Refuse(s, "GET /api/dashboard/stats", Middleware(s, FALSE))
       ELSE
           /\ resp' = [Response(s, "GET /api/dashboard/stats", 200) EXCEPT
                          !.rows = {getDashboardStats}]
           /\ UNCHANGED <<db, session, req, hist, front>>

\* The same handler with its awaits apart: getDashboardStats runs its count
\* queries one after the other, each on the table as it is at that moment, and
\* other requests run in between.  query is the number of the next query:
\* 1 picos, 2 paletizado_stock, 3 products alta_rotacao, 4 products
\* baixa_rotacao; the two activity_log queries and res.json follow.
NoStats == [totalPicos |-> 0, totalPaletizados |-> 0, altaRotacao |-> 0, baixaRotacao |-> 0]

DashboardStart(s) ==
    /\ Idle(s)
    /\ IF Middleware(s, FALSE) # 0
       THEN Refuse(s, "GET /api/dashboard/stats", Middleware(s, FALSE))
       ELSE
           /\ req' = [req EXCEPT ![s] = [pc |-> "stats", query |-> 1, stats |-> NoStats]]
           /\ seenCounts' = {Cardinality(products)}
           /\ UNCHANGED <<db, session, resp, mustChange, pwChanged, deleted, front>>

DashboardQuery(s) ==
    /\ req[s].pc = "stats"
    /\ req[s].query \in 1..4
    /\ LET count == CASE req[s].query = 1 -> [req[s].stats EXCEPT !.totalPicos = getDashboardStats.totalPicos]
                      [] req[s].query = 2 -> [req[s].stats EXCEPT !.totalPaletizados = getDashboardStats.totalPaletizados]
                      [] req[s].query = 3 -> [req[s].stats EXCEPT !.altaRotacao = getDashboardStats.altaRotacao]
                      [] req[s].query = 4 -> [req[s].stats EXCEPT !.baixaRotacao = getDashboardStats.baixaRotacao]
       IN req' = [req EXCEPT ![s].stats = count, ![s].query = @ + 1]
    /\ UNCHANGED <<db, session, resp, hist, front>>

DashboardAnswer(s) ==
    /\ req[s].pc = "stats"
    /\ req[s].query = 5
    /\ resp' = [Response(s, "GET /api/dashboard/stats", 200) EXCEPT !.rows = {req[s].stats}]
    /\ req' = [req EXCEPT ![s] = NoRequest]
    /\ UNCHANGED <<db, session, hist, front>>

(************************ client: lib/api.ts *******************************)
\* A response as fetch delivers it: the status, the Content-Length and
\* Content-Type headers ("" for a header that is absent), and what
\* response.json() makes of the body: kind "object" (with its message, if it
\* has a string one), "scalar" (a JSON string or number), "null", or
\* "unparsable" (response.json() throws).
ResponseOk(status) == status \in 200..299
IncludesJson(contentType) == Contains(contentType, "application/json")

ApiError(message, statusCode, details) ==
    [kind |-> "throw", name |-> "ApiError", message |-> message,
     statusCode |-> statusCode, details |-> details]
Returned(value) == [kind |-> "return", value |-> value]
\* The catch of apiRequest: an Error that is not an ApiError is thrown again
\* as an ApiError with statusCode 0.
NetworkError(message) ==
    ApiError("Erro de rede: " \o message, 0, [originalError |-> message])

EmptyObject == [kind |-> "object", message |-> {}]

apiRequest(response) ==
    IF response.status = 204 \/ response.contentLength = "0"
    THEN Returned(EmptyObject)
    ELSE IF ~IncludesJson(response.contentType)
    THEN NetworkError("Resposta invalida: O servidor nao retornou JSON")
    ELSE IF response.body.kind = "unparsable"
    THEN NetworkError("Falha ao processar resposta JSON do servidor")
    ELSE IF response.body.kind # "object"
    THEN NetworkError("Resposta invalida: Formato inesperado dos dados")
    ELSE IF \E m \in response.body.message : Contains(m, "log de atividade")
    THEN Returned(response.body)
    ELSE IF ~ResponseOk(response.status)
    THEN IF response.body.message # {}
         THEN ApiError(CHOOSE m \in response.body.message : TRUE,
                       response.status, response.body)
         ELSE ApiError("Erro HTTP", response.status, response.body)
    ELSE Returned(response.body)

\* One call of apiRequest that the server answers, and one that fetch rejects.
ApiCall(response) ==
    /\ fetched' = [response |-> {response}, outcome |-> {apiRequest(response)}]
    /\ UNCHANGED <<db, session, req, resp, hist, client>>

ApiCallRejected ==
    /\ fetched' = [response |-> {}, outcome |-> {NetworkError("Failed to fetch")}]
    /\ UNCHANGED <<db, session, req, resp, hist, client>>

(******************** client: pages and form dialogs ***********************)
\* The pages call apiRequest of lib/queryClient, whose source is not part of
\* the repository files at hand.  Its callers await it and then read
\* response.json(), and test error.message for "400": it resolves with the
\* response when the status is 2xx and otherwise throws an error that carries
\* the status and the body, with the message "<status>: <body message>".
StatusText(status) ==
    CASE status = 400 -> "400" [] status = 401 -> "401" [] status = 403 -> "403"
      [] status = 404 -> "404" [] OTHER -> "500"

\* The message of the JSON body the server sends with a refusal.
BodyMessage(r) ==
    CASE r.status = 401 -> "Unauthorized"
      [] r.status = 403 -> "Admin access required"
      [] r.status = 404 /\ r.route = "POST /api/picos" -> "Product not found"
      [] r.status = 404 /\ r.route = "DELETE /api/picos/:id" -> "Pico not found"
      [] r.status = 400 /\ r.route = "POST /api/picos" -> "Invalid pico data"
      [] r.status = 400 /\ r.route = "DELETE /api/picos/:id" -> "Failed to eliminate pico"
      [] r.status = 400 /\ r.route = "POST /api/products" -> "Invalid product data"
      [] r.status = 400 /\ r.route = "PUT /api/products/:id" -> "Failed to update product"
      [] r.status = 400 /\ r.route = "DELETE /api/products/:id" -> "Failed to delete product"
      [] OTHER -> "Could not log out"

RequestError(r) ==
    [statusCode |-> r.status, message |-> StatusText(r.status) \o ": " \o BodyMessage(r)]

isUnauthorizedError(error) == error.message \in {"Unauthorized", "Not authenticated"}

\* queryClient.invalidateQueries({queryKey: [key]}) for every key of keys.
invalidateQueries(cache, keys) ==
    [k \in QueryKeys |->
        IF k \in keys THEN {[e EXCEPT !.isInvalidated = TRUE] : e \in cache[k]}
        ELSE cache[k]]

\* A query's fetch resolved: its result is cached.
setQueryData(cache, key, data) ==
    [cache EXCEPT ![key] = {[data |-> data, isInvalidated |-> FALSE]}]

\* The branch of a mutation's handlers that reports success.
Succeeded(c, keys, title, dialog) ==
    [cache |-> invalidateQueries(c.cache, keys), toast |-> title, dialog |-> dialog]
Failed(c, title) == [c EXCEPT !.toast = title]

QueryRoutes ==
    {"GET /api/auth/user", "GET /api/products", "GET /api/picos",
     "GET /api/paletizado-stock", "GET /api/dashboard/stats"}
QueryKeyOf(route) == SubSeq(route, 5, Len(route))
\* The JSON body of a 2xx answer to a query.
QueryData(r) == IF r.route = "GET /api/auth/user" THEN r.users ELSE r.rows

\* onError of the Pico form's createMutation and deleteMutation.
PicoOnError(c, error, done, failed) ==
    IF isUnauthorizedError(error) THEN Failed(c, "Unauthorized")
    ELSE IF Contains(error.message, "log de atividade")
    THEN Succeeded(c, {"/api/picos", "/api/dashboard/stats"}, done, "closed")
    ELSE IF Contains(error.message, "400")
    THEN Succeeded(c, {"/api/picos", "/api/dashboard/stats"}, done, "closed")
    ELSE Failed(c, failed)

\* What the browser does with the response r of the request it sent: the
\* query stores the result, the mutation runs onSuccess or onError.
onResponse(c, r) ==
    LET ok == ResponseOk(r.status) IN
    CASE r.route \in QueryRoutes ->
             IF ok THEN [c EXCEPT !.cache = setQueryData(c.cache, QueryKeyOf(r.route),
                                                         QueryData(r))]
             ELSE c
      [] r.route = "POST /api/products" ->
             IF ok THEN Succeeded(c, {"/api/products"}, "Produto criado", "closed")
             ELSE Failed(c, "Erro ao criar produto")
      [] r.route = "PUT /api/products/:id" ->
             IF ok THEN Succeeded(c, {"/api/products"}, "Produto atualizado", "closed")
             ELSE Failed(c, "Erro ao atualizar produto")
      [] r.route = "DELETE /api/products/:id" ->
             IF ok THEN Succeeded(c, {"/api/products"}, "Produto excluido", c.dialog)
             ELSE Failed(c, "Erro ao excluir produto")
      [] r.route = "POST /api/picos" ->
             IF ok THEN Succeeded(c, {"/api/picos", "/api/dashboard/stats"}, "Pico criado", "closed")
             ELSE PicoOnError(c, RequestError(r), "Pico criado", "Erro ao criar pico")
      [] r.route = "DELETE /api/picos/:id" ->
             IF ok THEN Succeeded(c, {"/api/picos", "/api/dashboard/stats"}, "Pico eliminado", "closed")
             ELSE PicoOnError(c, RequestError(r), "Pico eliminado", "Erro ao eliminar pico")
      [] r.route = "POST /api/auth/login" ->
             IF ok THEN IF r.isFirstLogin = {TRUE} THEN c
                        ELSE Succeeded(c, {"/api/auth/user"}, "Login realizado com sucesso", c.dialog)
             ELSE Failed(c, "Erro no login")
      [] r.route = "POST /api/auth/logout" ->
             IF ok THEN [c EXCEPT !.cache = EmptyCache, !.toast = "Logout realizado"]
             ELSE [c EXCEPT !.cache = EmptyCache]
      [] OTHER -> c

\* The response is with the browser: no response is on its way.
Delivered(s) == Response(s, "none", 0)
Settled == resp.route = "none"

Receive ==
    /\ ~Settled
    /\ client' = onResponse(client, resp)
    /\ resp' = Delivered(resp.session)
    /\ UNCHANGED <<db, session, req, hist, fetched>>

\* The logout request does not reach the server: fetch rejects, and what the
\* browser gets is a failure without an HTTP status (0).
LogoutRejected(s) ==
    /\ Settled
    /\ resp' = Response(s, "POST /api/auth/logout", 0)
    /\ UNCHANGED <<db, session, req, hist, front>>

\* The user opens a form dialog.
OpenDialog ==
    /\ Settled
    /\ client.dialog = "closed"
    /\ client' = [client EXCEPT !.dialog = "open"]
    /\ UNCHANGED <<db, session, req, resp, hist, fetched>>

\* handleSubmit of the Pico form: the title of the notification it shows
\* instead of sending the request, "" when it sends it.  selected: whether the
\* autocomplete holds a product for the code.
PicoFormToast(form, selected) ==
    IF form.productCode = "" \/ ~selected THEN "Produto obrigatorio"
    ELSE IF form.bases < 0 \/ form.looseUnits < 0 THEN "Valores invalidos"
    ELSE IF form.bases = 0 /\ form.looseUnits = 0 THEN "Quantidade obrigatoria"
    ELSE IF form.towerLocation # "" /\ ~TowerLocationRegex(form.towerLocation)
    THEN "Formato invalido"
    ELSE ""

\* The autocomplete offers the products of the cached /api/products result.
Autocomplete(code) ==
    \E e \in client.cache["/api/products"] : \E p \in e.data : p.code = code

PicoFormRefuses(form) ==
    /\ Settled
    /\ client.dialog = "open"
    /\ PicoFormToast(form, Autocomplete(form.productCode)) # ""
    /\ client' = [client EXCEPT !.toast =
                      PicoFormToast(form, Autocomplete(form.productCode))]
    /\ UNCHANGED <<db, session, req, resp, hist, fetched>>

(************************** request inputs *********************************)
Usernames == {"admin", "joao", ""}
Passwords == {"admin", "secret1", "abc"}

UserBodies ==
    {[name |-> "Joao", nickname |-> "Jo", username |-> un, password |-> "secret1",
      role |-> r] : un \in {"admin", "joao"}, r \in Roles \cup {"gerente"}}
    \cup {[name |-> "Joao", nickname |-> "Jo", username |-> "joao", role |-> "armazenista"]}
    \cup {[name |-> "Joao", nickname |-> "Jo", username |-> "joao", password |-> "abc",
           role |-> "armazenista", isFirstLogin |-> FALSE]}

UserUpdates ==
    {[role |-> r] : r \in Roles} \cup {[isFirstLogin |-> TRUE], [username |-> "admin"],
     [name |-> "Joao", role |-> "armazenista", password |-> ""]}

UserIds == 1..MaxUserId

ProductCodes == {"P1", "P2"}

(***************** Spec: authentication and user management ****************)
\* One client, from the state registerRoutes leaves.
AuthNext ==
    \E s \in {"s1"} :
        \/ \E un \in Usernames, pw \in Passwords : Login(s, un, pw)
        \/ \E np \in Passwords, cp \in {"secret1", "abc"} : ChangePassword(s, np, cp)
        \/ Logout(s)
        \/ AuthUser(s)
        \/ GetUsers(s)
        \/ \E body \in UserBodies : serial.users <= MaxUserId /\ PostUser(s, body)
        \/ \E id \in UserIds, body \in UserUpdates : PutUser(s, id, body)
        \/ \E id \in UserIds : DeleteUser(s, id) /\ Untracked

Next == AuthNext

Spec == Init /\ [][Next]_vars

(************************ AppSpec: every route *****************************)
\* One client again, with one request body per route, a database that accepts
\* every activity_log row, and the users table after an administrator has
\* created the warehouse worker joao.
Joao ==
    [id |-> 2, name |-> "Joao", nickname |-> "Jo", username |-> "joao",
     password |-> BcryptHash("secret1"), role |-> "armazenista", isFirstLogin |-> FALSE]

AppInit ==
    /\ users = {DefaultAdmin, Joao}
    /\ products = {}
    /\ picos = {}
    /\ stock = {}
    /\ activityLog = << >>
    /\ serial = [users |-> 3, products |-> 1, picos |-> 1, stock |-> 1]
    /\ session = [s \in Sessions |-> NoSession]
    /\ req = [s \in Sessions |-> NoRequest]
    /\ resp = Response("s1", "POST /api/auth/logout", 200)
    /\ mustChange = {}
    /\ pwChanged = {}
    /\ deleted = {}
    /\ seenCounts = {}
    /\ client = NoClient
    /\ fetched = NoFetch

Widget ==
    [code |-> "P1", description |-> "Widget", quantityBases |-> 10, unitsPerBase |-> 2,
     category |-> "alta_rotacao"]

Maria ==
    [name |-> "Maria", nickname |-> "Ma", username |-> "maria", password |-> "secret1",
     role |-> "armazenista"]

AppNext ==
    \E s \in {"s1"} :
        \/ \E un \in {"admin", "joao"}, pw \in {"admin", "secret1"} : Login(s, un, pw)
        \/ ChangePassword(s, "secret1", "secret1")
        \/ Logout(s)
        \/ AuthUser(s)
        \/ GetUsers(s)
        \/ serial.users <= AppMaxId + 2 /\ PostUser(s, Maria)
        \/ PutUser(s, 3, [nickname |-> "Mari"])
        \/ DeleteUser(s, 3) /\ Untracked
        \/ GetProducts(s)
        \/ SearchProducts(s, "P")
        \/ serial.products <= AppMaxId /\ PostProduct(s, Widget)
        \/ PutProduct(s, 1, [unitsPerBase |-> 1])
        \/ DeleteProduct(s, 1) /\ Untracked
        \/ GetPicos(s)
        \/ /\ serial.picos <= AppMaxId
           /\ Len(activityLog) < AppMaxLog
           /\ PostPico(s, "P1", 1, 1, "01", TRUE)
        \/ PutPico(s, 1, 2, 0, "02")
        \/ Len(activityLog) < AppMaxLog /\ DeletePico(s, 1, TRUE) /\ Untracked
        \/ GetStock(s)
        \/ PostStockStart(s, "P1", 1)
        \/ PostStockRead(s)
        \/ serial.stock <= AppMaxId /\ PostStockWrite(s)
        \/ Len(activityLog) < AppMaxLog /\ PostStockLog(s, TRUE)
        \/ PutStock(s, 1, 2)
        \/ Len(activityLog) < AppMaxLog /\ DeleteStock(s, 1, TRUE) /\ Untracked
        \/ DashboardStats(s)

AppSpec == AppInit /\ [][AppNext]_vars

(********************** the inventory specifications ***********************)
\* The administrator has changed the first password and is logged in on both
\* cookies; the inventory tables are empty.
Admin == [DefaultAdmin EXCEPT !.password = BcryptHash("secret1"), !.isFirstLogin = FALSE]

InventoryInit ==
    /\ users = {Admin}
    /\ products = {}
    /\ picos = {}
    /\ stock = {}
    /\ activityLog = << >>
    /\ serial = [users |-> 2, products |-> 1, picos |-> 1, stock |-> 1]
    /\ session = [s \in Sessions |-> [userId |-> Admin.id, user |-> {Admin}]]
    /\ req = [s \in Sessions |-> NoRequest]
    /\ resp = [LoginAnswer("s2", "admin", "secret1", 200) EXCEPT
                  !.users = {StripPassword(Admin)}, !.isFirstLogin = {FALSE}]
    /\ mustChange = {}
    /\ pwChanged = {Admin.id}
    /\ deleted = {}
    /\ seenCounts = {}
    /\ client = NoClient
    /\ fetched = NoFetch

\* Quantities a request carries: the small ones, and the largest integer.
SmallQuantities == 0..MaxQty
BigQuantities == SmallQuantities \cup {INT4_MAX}

PicoProductBodies ==
    {[code |-> "P1", description |-> "Widget", quantityBases |-> 10,
      unitsPerBase |-> u, category |-> "alta_rotacao"] : u \in 1..MaxQty}

(* PicoSpec: one client creating products and picos. *)
\* POST /api/picos requests <<productCode, bases, looseUnits, towerLocation>>, each
\* with whether the database accepts the activity_log row: the well-formed ones,
\* one for an unknown product and those with a tower that is not two digits.
BadTowers == {"1", "abc", "123", "", "ab", "1a"}

PicoRequests ==
    {<<"P1", b, l, "01", ok>> : b \in BigQuantities, l \in {0, 1, INT4_MAX}, ok \in BOOLEAN}
    \cup {<<"P2", 1, 0, "01", TRUE>>}
    \cup {<<"P1", 1, 0, t, TRUE>> : t \in BadTowers}

PicoNext ==
    \E s \in {"s1"} :
        \/ \E body \in PicoProductBodies :
              serial.products <= MaxProductId /\ PostProduct(s, body)
        \/ \E r \in PicoRequests :
              /\ serial.picos <= MaxPicoId
              /\ Len(activityLog) < PicoMaxLog
              /\ PostPico(s, r[1], r[2], r[3], r[4], r[5])
        \/ GetPicos(s)

PicoSpec == InventoryInit /\ [][PicoNext]_vars

(* StockSpec: one client, so no request runs between the awaits of another, and a
   database that accepts every activity_log row. *)
StockNext ==
    \E s \in {"s1"} :
        \/ \E body \in PicoProductBodies :
              serial.products <= MaxProductId /\ PostProduct(s, body)
        \/ \E c \in ProductCodes, q \in BigQuantities : PostStockStart(s, c, q)
        \/ PostStockRead(s)
        \/ serial.stock <= MaxStockId /\ PostStockWrite(s)
        \/ Len(activityLog) < MaxLog /\ PostStockLog(s, TRUE)
        \/ \E id \in 1..MaxStockId :
              Len(activityLog) < MaxLog /\ DeleteStock(s, id, TRUE) /\ Untracked
        \/ GetStock(s)

StockSpec == InventoryInit /\ [][StockNext]_vars

(* RaceSpec: two clients post stock for the same product at the same time; the
   database accepts every activity_log row. *)
RaceInit ==
    /\ users = {Admin}
    /\ products = {[id |-> 1] @@ Widget}
    /\ picos = {}
    /\ stock = {}
    /\ activityLog = << >>
    /\ serial = [users |-> 2, products |-> 2, picos |-> 1, stock |-> 1]
    /\ session = [s \in Sessions |-> [userId |-> Admin.id, user |-> {Admin}]]
    /\ req = [s \in Sessions |-> NoRequest]
    /\ resp = [Response("s1", "POST /api/products", 200) EXCEPT
                  !.rows = {[id |-> 1] @@ Widget}]
    /\ mustChange = {}
    /\ pwChanged = {Admin.id}
    /\ deleted = {}
    /\ seenCounts = {}
    /\ client = NoClient
    /\ fetched = NoFetch

RaceNext ==
    \E s \in Sessions :
        \/ \E q \in 1..MaxQty : PostStockStart(s, "P1", q)
        \/ PostStockRead(s)
        \/ serial.stock <= MaxStockId /\ PostStockWrite(s)
        \/ Len(activityLog) < RaceMaxLog /\ PostStockLog(s, TRUE)

RaceSpec == RaceInit /\ [][RaceNext]_vars

(* CatalogSpec: one client creating, changing and deleting products and picos. *)
ProductUpdates ==
    {[unitsPerBase |-> 1], [category |-> "baixa_rotacao"], [category |-> "premium"]}

\* PUT /api/picos/:id bodies <<bases, looseUnits, towerLocation>>.
PicoUpdates ==
    {<<2, 1, "02">>} \cup {<<1, 0, t>> : t \in {"", "ab", "123"}}

CatalogNext ==
    \E s \in {"s1"} :
        \/ serial.products <= CatMaxId /\ PostProduct(s, Widget)
        \/ \E id \in 1..CatMaxId, updates \in ProductUpdates : PutProduct(s, id, updates)
        \/ \E id \in 1..CatMaxId : DeleteProduct(s, id) /\ Untracked
        \/ GetProducts(s)
        \/ /\ serial.picos <= CatMaxId
           /\ Len(activityLog) < CatMaxLog
           /\ PostPico(s, "P1", 1, 1, "01", TRUE)
        \/ \E id \in 1..CatMaxId, u \in PicoUpdates : PutPico(s, id, u[1], u[2], u[3])
        \/ \E id \in 1..CatMaxId, ok \in BOOLEAN :
              Len(activityLog) < CatMaxLog /\ DeletePico(s, id, ok) /\ Untracked
        \/ GetPicos(s)

CatalogSpec == InventoryInit /\ [][CatalogNext]_vars

(* LedgerSpec: one client writing picos and stock while the database may refuse
   an activity_log row and the server may stop between two writes. *)
LedgerNext ==
    \/ \E s \in {"s1"} :
        \/ Login(s, "admin", "secret1")
        \/ serial.products <= LedgerMaxId /\ PostProduct(s, Widget)
        \/ \E c \in ProductCodes, t \in {"01", "1"}, ok \in BOOLEAN :
              /\ serial.picos <= LedgerMaxId
              /\ Len(activityLog) < LedgerMaxLog
              /\ PostPico(s, c, 1, 1, t, ok)
        \/ \E id \in 1..LedgerMaxId, ok \in BOOLEAN :
              Len(activityLog) < LedgerMaxLog /\ DeletePico(s, id, ok) /\ Untracked
        \/ \E c \in ProductCodes, q \in 1..MaxQty :
              /\ \A k \in stock : k.quantity <= MaxQty
              /\ PostStockStart(s, c, q)
        \/ PostStockRead(s)
        \/ serial.stock <= LedgerMaxId /\ PostStockWrite(s)
        \/ \E ok \in BOOLEAN : Len(activityLog) < LedgerMaxLog /\ PostStockLog(s, ok)
        \/ \E id \in 1..LedgerMaxId, ok \in BOOLEAN :
              Len(activityLog) < LedgerMaxLog /\ DeleteStock(s, id, ok) /\ Untracked
    \/ (\E s \in Sessions : ~Idle(s)) /\ ServerStops

LedgerSpec == InventoryInit /\ [][LedgerNext]_vars

(* DeleteSpec: one administrator creating, deleting and listing the rows of the
   four tables, with a record of the DELETE requests that answered 200. *)
DeleteNext ==
    \E s \in {"s1"} :
        \/ serial.users <= DelMaxId + 1 /\ PostUser(s, Maria)
        \/ \E id \in 1..(DelMaxId + 1) : DeleteUser(s, id) /\ Tracked("users", id)
        \/ GetUsers(s)
        \/ serial.products <= DelMaxId /\ PostProduct(s, Widget)
        \/ \E id \in 1..DelMaxId : DeleteProduct(s, id) /\ Tracked("products", id)
        \/ GetProducts(s)
        \/ /\ serial.picos <= DelMaxId
           /\ Len(activityLog) < DelMaxLog
           /\ PostPico(s, "P1", 1, 1, "01", TRUE)
        \/ \E id \in 1..DelMaxId :
              /\ Len(activityLog) < DelMaxLog
              /\ DeletePico(s, id, TRUE)
              /\ Tracked("picos", id)
        \/ GetPicos(s)
        \/ PostStockStart(s, "P1", 1)
        \/ PostStockRead(s)
        \/ serial.stock <= DelMaxId /\ PostStockWrite(s)
        \/ Len(activityLog) < DelMaxLog /\ PostStockLog(s, TRUE)
        \/ \E id \in 1..DelMaxId :
              /\ Len(activityLog) < DelMaxLog
              /\ DeleteStock(s, id, TRUE)
              /\ Tracked("paletizado_stock", id)
        \/ GetStock(s)
        \/ DashboardStats(s)

DeleteSpec == InventoryInit /\ [][DeleteNext]_vars

(* ClientSpec: one browser, logged in as the administrator, and the server. The
   browser sends a request only when it has handled the previous response. *)
ClientInit ==
    /\ users = {Admin}
    /\ products = {}
    /\ picos = {}
    /\ stock = {}
    /\ activityLog = << >>
    /\ serial = [users |-> 2, products |-> 1, picos |-> 1, stock |-> 1]
    /\ session = [s \in Sessions |-> [userId |-> Admin.id, user |-> {Admin}]]
    /\ req = [s \in Sessions |-> NoRequest]
    /\ resp = Delivered("s1")
    /\ mustChange = {}
    /\ pwChanged = {Admin.id}
    /\ deleted = {}
    /\ seenCounts = {}
    /\ client = NoClient
    /\ fetched = NoFetch

\* The product form's update: every field but the category.
WidgetEdit ==
    [code |-> "P1", description |-> "Widget", quantityBases |-> 10, unitsPerBase |-> 1]

PicoForms ==
    {[productCode |-> "P1", bases |-> 1, looseUnits |-> 1, towerLocation |-> t] :
        t \in {"01", ""}}
    \cup {[productCode |-> "P1", bases |-> 0, looseUnits |-> 0, towerLocation |-> "01"]}

ClientNext ==
    \E s \in {"s1"} :
        \/ Settled /\ GetProducts(s)
        \/ Settled /\ GetPicos(s)
        \/ Settled /\ DashboardStats(s)
        \/ OpenDialog
        \/ /\ Settled
           /\ client.dialog = "open"
           /\ serial.products <= ClientMaxId
           /\ PostProduct(s, Widget)
        \/ Settled /\ client.dialog = "open" /\ PutProduct(s, 1, WidgetEdit)
        \/ Settled /\ DeleteProduct(s, 1) /\ Untracked
        \/ \E form \in PicoForms :
              /\ Settled
              /\ client.dialog = "open"
              /\ PicoFormToast(form, Autocomplete(form.productCode)) = ""
              /\ serial.picos <= ClientMaxId
              /\ Len(activityLog) < ClientMaxLog
              /\ PostPico(s, form.productCode, form.bases, form.looseUnits,
                          form.towerLocation, TRUE)
        \/ \E form \in PicoForms : PicoFormRefuses(form)
        \/ /\ Settled
           /\ client.dialog = "open"
           /\ Len(activityLog) < ClientMaxLog
           /\ DeletePico(s, 1, TRUE)
           /\ Untracked
        \/ Settled /\ Login(s, "admin", "secret1")
        \/ Settled /\ AuthUser(s)
        \/ Settled /\ Logout(s)
        \/ LogoutRejected(s)
        \/ Receive

ClientSpec == ClientInit /\ [][ClientNext]_vars

(* ExitSpec: two clients deleting picos and stock rows at the same time, from
   a warehouse that holds one pico and one stock row of product P1. *)
Widget1 == [id |-> 1] @@ Widget
Pico1 ==
    [id |-> 1, productId |-> 1, bases |-> 1, looseUnits |-> 1,
     totalUnits |-> TotalUnits(1, Widget.unitsPerBase, 1), towerLocation |-> "01"]
Stock1 == [id |-> 1, productId |-> 1, quantity |-> 1]

ExitInit ==
    /\ users = {Admin}
    /\ products = {Widget1}
    /\ picos = {Pico1}
    /\ stock = {Stock1}
    /\ activityLog = <<LogRow("entry", Widget1, Pico1.totalUnits),
                       LogRow("entry", Widget1, Stock1.quantity)>>
    /\ serial = [users |-> 2, products |-> 2, picos |-> 2, stock |-> 2]
    /\ session = [s \in Sessions |-> [userId |-> Admin.id, user |-> {Admin}]]
    /\ req = [s \in Sessions |-> NoRequest]
    /\ resp = [PicoAnswer("s1", [productCode |-> "P1", bases |-> 1, looseUnits |-> 1,
                                 towerLocation |-> "01"], 200) EXCEPT !.rows = {Pico1}]
    /\ mustChange = {}
    /\ pwChanged = {Admin.id}
    /\ deleted = {}
    /\ seenCounts = {}
    /\ client = NoClient
    /\ fetched = NoFetch

ExitNext ==
    \E s \in Sessions :
        \/ /\ serial.picos <= ExitMaxId
           /\ Len(activityLog) < ExitMaxLog
           /\ PostPico(s, "P1", 1, 1, "01", TRUE)
        \/ \E id \in 1..ExitMaxId : DeletePicoStart(s, id)
        \/ DeletePicoWrite(s)
        \/ Len(activityLog) < ExitMaxLog /\ DeletePicoLog(s)
        \/ \E id \in 1..ExitMaxId : DeleteStockStart(s, id)
        \/ DeleteStockWrite(s)
        \/ Len(activityLog) < ExitMaxLog /\ DeleteStockLog(s)

ExitSpec == ExitInit /\ [][ExitNext]_vars

(* ApiSpec: calls of the typed fetch wrapper, over the responses a server or a
   proxy in front of it can send. *)
ApiStatuses == {200, 201, 204, 400, 401, 404, 500}
ApiContentTypes == {"application/json", "application/json; charset=utf-8", "text/html", ""}
ApiBodies ==
    {[kind |-> "object", message |-> {}],
     [kind |-> "object", message |-> {"Invalid pico data"}],
     [kind |-> "object", message |-> {"Erro no log de atividade"}],
     [kind |-> "scalar", message |-> {}],
     [kind |-> "null", message |-> {}],
     [kind |-> "unparsable", message |-> {}]}
ApiResponses ==
    [status : ApiStatuses, contentLength : {"0", "27", ""},
     contentType : ApiContentTypes, body : ApiBodies]

ApiNext ==
    \/ \E response \in ApiResponses : ApiCall(response)
    \/ ApiCallRejected

ApiSpec == InventoryInit /\ [][ApiNext]_vars

(* DashSpec: one client reading the dashboard while an administrator creates
   and deletes products. *)
Crate ==
    [code |-> "P2", description |-> "Crate", quantityBases |-> 5,
     unitsPerBase |-> 1, category |-> "baixa_rotacao"]

DashNext ==
    \/ DashboardStart("s1")
    \/ DashboardQuery("s1")
    \/ DashboardAnswer("s1")
    \/ \E body \in {Widget, Crate} :
          serial.products <= DashMaxId /\ PostProduct("s2", body)
    \/ \E id \in 1..DashMaxId : DeleteProduct("s2", id) /\ Untracked

DashSpec == InventoryInit /\ [][DashNext]_vars

(***************************** properties **********************************)
LoginRoute == "POST /api/auth/login"
LogoutRoute == "POST /api/auth/logout"
ChangePasswordRoute == "POST /api/auth/change-password"

AdminWriteRoutes ==
    {"POST /api/users", "PUT /api/users/:id", "DELETE /api/users/:id",
     "POST /api/products", "PUT /api/products/:id", "DELETE /api/products/:id"}

MainAppRoutes ==
    AdminWriteRoutes \cup
    {"GET /api/dashboard/stats", "GET /api/users", "GET /api/products",
     "GET /api/products/search", "GET /api/picos", "POST /api/picos",
     "PUT /api/picos/:id", "DELETE /api/picos/:id", "GET /api/paletizado-stock",
     "POST /api/paletizado-stock", "PUT /api/paletizado-stock/:id",
     "DELETE /api/paletizado-stock/:id"}

\* The credentials name no user, or a user whose stored password is not their hash.
WrongCredentials(c) ==
    \A u \in users : u.username = c.username => u.password # BcryptHash(c.password)

\* C5: a login with well-formed credentials that name no user, or carry a wrong
\* password, answers 401 and leaves the session data as it was; and when that
\* session held no user, a GET /api/auth/user that follows the refused login
\* answers 401.
C5_FailedLoginNoSession ==
    [][/\ resp'.route = LoginRoute =>
            \A c \in resp'.request :
                (loginSchema(c.username, c.password) /\ WrongCredentials(c))
                    => (resp'.status = 401 /\ session' = session)
       /\ (/\ resp.route = LoginRoute
           /\ resp.status = 401
           /\ session[resp.session].userId = NoUserId
           /\ resp'.route = "GET /api/auth/user"
           /\ resp'.session = resp.session) => resp'.status = 401]_vars

\* A login with the wrong password for an existing user was refused with 401, on a
\* session that holds no user.
C5_Witness ==
    /\ resp.route = LoginRoute
    /\ resp.status = 401
    /\ \E c \in resp.request : getUserByUsername(c.username) # {}
    /\ session[resp.session] = NoSession

\* C9 (as amended): after a successful change-password the stored row of the
\* session's user, if it still exists, has isFirstLogin = FALSE and the session's
\* cached user is that row (nothing, if the row is gone); a successful login
\* reports the stored isFirstLogin; and a stored isFirstLogin goes from FALSE to
\* TRUE only by a successful PUT /api/users/:id.
C9_PasswordChangeClearsFlag ==
    [][/\ (resp'.route = ChangePasswordRoute /\ resp'.status = 200) =>
            LET row == {u \in users' : u.id = session'[resp'.session].userId}
            IN /\ \A u \in row : u.isFirstLogin = FALSE
               /\ session'[resp'.session].user = row
       /\ (resp'.route = LoginRoute /\ resp'.status = 200) =>
            resp'.isFirstLogin =
                {u.isFirstLogin : u \in {v \in users : v.id = session'[resp'.session].userId}}
       /\ \A u \in users, v \in users' :
            (u.id = v.id /\ ~u.isFirstLogin /\ v.isFirstLogin)
                => (resp'.route = "PUT /api/users/:id" /\ resp'.status = 200)]_vars

\* A change-password has just succeeded for a user whose row exists.
C9_Witness ==
    /\ resp.route = ChangePasswordRoute
    /\ resp.status = 200
    /\ getUser(session[resp.session].userId) # {}
    /\ session[resp.session].userId \in pwChanged

\* C9 as claimed: after a successful change-password the stored row has
\* isFirstLogin = FALSE and the session's cached user equals it, and every later
\* successful login of that user reports isFirstLogin = FALSE.
C9_Original ==
    /\ (resp.route = ChangePasswordRoute /\ resp.status = 200) =>
            LET row == getUser(session[resp.session].userId)
            IN /\ \A u \in row : u.isFirstLogin = FALSE
               /\ session[resp.session].user = row
    /\ (/\ resp.route = LoginRoute
        /\ resp.status = 200
        /\ session[resp.session].userId \in pwChanged) => resp.isFirstLogin = {FALSE}

\* C10: no response body carries a password: every User payload of a response
\* lacks the password key, and no other row of a response has one.
C10_NoPasswordInResponse ==
    /\ \A u \in resp.users : "password" \notin DOMAIN u
    /\ \A r \in resp.rows : "password" \notin DOMAIN r

\* GET /api/users has answered with the payloads of two users.
C10_Witness ==
    /\ resp.route = "GET /api/users"
    /\ resp.status = 200
    /\ Cardinality(resp.users) >= 2

\* C6 (as amended): a request on a session that holds no user answers 401 and
\* writes nothing to the database on every route except login and logout; logout
\* answers 200 there, and writes nothing either.
C6_UnauthenticatedRefused ==
    [][session[resp'.session].userId = NoUserId =>
        CASE resp'.route = LoginRoute -> TRUE
          [] resp'.route = LogoutRoute -> resp'.status = 200 /\ db' = db
          [] OTHER -> resp'.status = 401 /\ db' = db]_vars

\* A write route was refused with 401 while the database held a product.
C6_Witness ==
    /\ resp.route = "POST /api/picos"
    /\ resp.status = 401
    /\ session[resp.session] = NoSession
    /\ products # {}

\* C6 as claimed: every route except login, logout included, answers 401 and
\* writes nothing when the session holds no user.
C6_Original ==
    [][(session[resp'.session].userId = NoUserId /\ resp'.route # LoginRoute)
            => (resp'.status = 401 /\ db' = db)]_vars

\* C7: a POST, PUT or DELETE on /api/users or /api/products, on a session that
\* holds a userId and whose user is not an administrador, answers 403 and leaves
\* the users and products tables as they were.
C7_NonAdminRefused ==
    [][(/\ resp'.route \in AdminWriteRoutes
        /\ session[resp'.session].userId # NoUserId
        /\ \A u \in session[resp'.session].user : u.role # "administrador")
            => (resp'.status = 403 /\ users' = users /\ products' = products)]_vars

\* The warehouse worker's POST /api/products was refused with 403.
C7_Witness ==
    /\ resp.route = "POST /api/products"
    /\ resp.status = 403
    /\ \E u \in session[resp.session].user : u.role = "armazenista"

\* C8 as claimed: a session whose last login reported isFirstLogin = TRUE, and
\* that has not changed the password since, gets no 200 from a main-app route.
C8_ForcedPasswordChange ==
    (resp.route \in MainAppRoutes /\ resp.status = 200) => resp.session \notin mustChange

\* C1: a POST /api/picos that answers 200, for a product with unitsPerBase = u
\* and a body with bases = b and looseUnits = l (neither negative), returns a
\* pico that is stored and whose totalUnits is b * u + l.
C1_PicoTotalUnits ==
    (resp.route = "POST /api/picos" /\ resp.status = 200) =>
        /\ resp.rows # {}
        /\ \A body \in resp.request, pico \in resp.rows :
            /\ pico \in picos
            /\ \E product \in getProductByCode(body.productCode) :
                  pico.totalUnits = body.bases * product.unitsPerBase + body.looseUnits

\* A pico with two bases of two units and one loose unit was created: 5 units.
C1_Witness ==
    /\ resp.route = "POST /api/picos"
    /\ resp.status = 200
    /\ \E body \in resp.request, pico \in resp.rows :
          /\ body.bases = 2
          /\ body.looseUnits = 1
          /\ pico.totalUnits = 5
          /\ pico \in picos

\* C2 as claimed: paletizado_stock holds at most one row per product.
C2_OneStockRowPerProduct ==
    \A k1 \in stock, k2 \in stock : k1.productId = k2.productId => k1 = k2

\* The rows of paletizado_stock for the product of the request of client s.
StockRowsOf(s) == {k \in stock : k.productId = req[s].product.id}

\* C3: with no other request running, the write of a POST /api/paletizado-stock
\* with quantity q, for a product that has a stock row of quantity q0, keeps the
\* number of rows and makes that row's quantity q0 + q; for a product that has no
\* row it adds exactly one row, of quantity q.
C3_StockIncrement ==
    [][\A s \in Sessions :
        (req[s].pc = "write" /\ req'[s].pc = "log") =>
            IF StockRowsOf(s) # {}
            THEN /\ Cardinality(stock') = Cardinality(stock)
                 /\ \E k \in StockRowsOf(s) :
                       stock' = (stock \ {k}) \cup
                                {[k EXCEPT !.quantity = k.quantity + req[s].quantity]}
            ELSE /\ Cardinality(stock') = Cardinality(stock) + 1
                 /\ \E k \in stock' \ stock :
                       /\ stock' = stock \cup {k}
                       /\ k.productId = req[s].product.id
                       /\ k.quantity = req[s].quantity]_vars

\* A POST has raised the quantity of an existing row: two log rows, one stock row
\* that holds the sum of both quantities.
C3_Witness ==
    /\ resp.route = "POST /api/paletizado-stock"
    /\ resp.status = 200
    /\ Len(activityLog) = 2
    /\ Cardinality(stock) = 1
    /\ \A k \in stock : k.quantity = activityLog[1].quantity + activityLog[2].quantity
    /\ \A i \in 1..2 : activityLog[i].type = "entry" /\ activityLog[i].quantity > 0

\* Both clients have written, each on top of the same row as read before either
\* wrote (the quantities are positive, so a row read after a write differs).
BothWroteOnSameRead ==
    /\ req["s1"].pc = "log"
    /\ req["s2"].pc = "log"
    /\ req["s1"].existingStock # {}
    /\ req["s1"].existingStock = req["s2"].existingStock

\* C4: when two POST /api/paletizado-stock requests for a product read its row,
\* of quantity q0, before either writes, the stored quantity after both writes
\* is q0 + q1 or q0 + q2 and not q0 + q1 + q2; and each request then appends its
\* own "entry" log row and answers 200.
C4_LostIncrement ==
    /\ [](BothWroteOnSameRead =>
            \A k0 \in req["s1"].existingStock :
                LET q1 == req["s1"].quantity
                    q2 == req["s2"].quantity
                IN \A k \in stock :
                      k.id = k0.id =>
                          /\ k.quantity \in {k0.quantity + q1, k0.quantity + q2}
                          /\ k.quantity # k0.quantity + q1 + q2)
    /\ [][\A s \in Sessions :
            (req[s].pc = "log" /\ req'[s].pc = "idle") =>
                /\ activityLog' = Append(activityLog,
                                         LogRow("entry", req[s].product, req[s].quantity))
                /\ resp'.status = 200
                /\ resp'.session = s]_vars

\* Three requests were answered 200 and logged, and the one stock row holds less
\* than the sum of the logged quantities: an increment is lost.
C4_Witness ==
    /\ \A s \in Sessions : Idle(s)
    /\ resp.route = "POST /api/paletizado-stock"
    /\ resp.status = 200
    /\ Len(activityLog) = 3
    /\ Cardinality(stock) = 1
    /\ \A k \in stock :
          k.quantity < activityLog[1].quantity + activityLog[2].quantity
                       + activityLog[3].quantity

\* The strings of exactly two decimal digits.
TwoDigits == {a \o b : a \in Digits, b \in Digits}

\* C11: a POST /api/picos on a logged-in session, for an existing product, with a
\* towerLocation that is not exactly two decimal digits, answers 400 and writes
\* neither a pico nor an activity_log row.
C11_BadTowerRefused ==
    [][(resp'.route = "POST /api/picos" /\ session[resp'.session].userId # NoUserId) =>
        \A body \in resp'.request :
            (getProductByCode(body.productCode) # {} /\ body.towerLocation \notin TwoDigits)
                => (resp'.status = 400 /\ picos' = picos /\ activityLog' = activityLog)]_vars

\* The tower "123" was refused for the existing product P1.
C11_Witness ==
    /\ resp.route = "POST /api/picos"
    /\ resp.status = 400
    /\ \E body \in resp.request :
          /\ body.towerLocation = "123"
          /\ getProductByCode(body.productCode) # {}
    /\ picos = {}
    /\ activityLog = << >>

\* C17: a POST /api/picos that answers 200 has stored the pico it returns and has
\* appended exactly one activity_log row, of type "entry", with the pico's
\* totalUnits as quantity and the code, description and category of the product
\* the code resolved; and the log row is written after the pico: a POST that
\* writes a log row has written its pico, never the row alone.
C17_PicoEntryLogged ==
    [][resp'.route = "POST /api/picos" =>
        /\ resp'.status = 200 =>
            \E pico \in resp'.rows, body \in resp'.request :
                \E product \in getProductByCode(body.productCode) :
                    /\ pico \in picos' \ picos
                    /\ activityLog' = Append(activityLog,
                            [type |-> "entry", productCode |-> product.code,
                             productDescription |-> product.description,
                             quantity |-> pico.totalUnits,
                             category |-> product.category])
        /\ activityLog' # activityLog => picos' # picos]_vars

\* A pico of 5 units was created and its entry row is the whole log.
C17_Witness ==
    /\ resp.route = "POST /api/picos"
    /\ resp.status = 200
    /\ Len(activityLog) = 1
    /\ activityLog[1].type = "entry"
    /\ activityLog[1].quantity = 5
    /\ \E pico \in resp.rows : pico \in picos /\ pico.totalUnits = 5

\* C12 as claimed: every stored pico's towerLocation is two decimal digits.
C12_StoredTowerTwoDigits ==
    \A p \in picos : p.towerLocation \in TwoDigits

\* C13 as claimed: every stored pico's totalUnits is its bases times the current
\* unitsPerBase of its product, plus its looseUnits.
C13_TotalUnitsCurrent ==
    \A p \in picos, q \in products :
        q.id = p.productId => p.totalUnits = p.bases * q.unitsPerBase + p.looseUnits

\* C14 as claimed: no step changes the category of an existing product.
C14_CategoryFixed ==
    [][\A p \in products, q \in products' : p.id = q.id => q.category = p.category]_vars

\* C15 as claimed, for PUT /api/picos/:id: a body whose towerLocation fails the
\* pico schema (it is not two decimal digits) answers 400 and changes nothing
\* stored.
C15_InvalidBodyRefused ==
    [][(resp'.route = "PUT /api/picos/:id" /\ resp'.status \notin {401, 404}) =>
        \A body \in resp'.request :
            body.towerLocation \notin TwoDigits => (resp'.status = 400 /\ db' = db)]_vars

UnknownCode(code) == \A p \in products : p.code # code

\* C16: on a logged-in session, a POST /api/picos or POST /api/paletizado-stock
\* whose productCode is the code of no product answers 404 and writes nothing;
\* the stock handler goes on to its read only for the code of a product.
C16_UnknownProductRefused ==
    [][/\ (/\ resp' # resp
           /\ resp'.route \in {"POST /api/picos", "POST /api/paletizado-stock"}
           /\ session[resp'.session].userId # NoUserId) =>
            \A body \in resp'.request :
                UnknownCode(body.productCode) =>
                    (resp'.status = 404 /\ db' = db /\ req' = req)
       /\ \A s \in Sessions :
            (Idle(s) /\ req'[s].pc = "read") => ~UnknownCode(req'[s].productCode)]_vars

\* A POST /api/paletizado-stock for the unknown code P2 was answered 404 while
\* product P1 is stored.
C16_Witness ==
    /\ resp.route = "POST /api/paletizado-stock"
    /\ resp.status = 404
    /\ \E body \in resp.request : body.productCode = "P2"
    /\ products # {}
    /\ stock = {}

\* C19: the primary write and its log write are not atomic.  When the log insert
\* is refused, the handler answers 400 and the primary change stays: the pico
\* of a well-formed POST /api/picos is stored, the pico or the stock row of a
\* DELETE is gone, the stock row of a POST /api/paletizado-stock keeps what was
\* written, and the log has no row for it.  When the server stops between the
\* stock write and the log write, the database keeps the write and no log row.
C19_LogNotAtomic ==
    [][/\ (resp' # resp /\ resp'.status = 400) =>
            /\ resp'.route = "POST /api/picos" =>
                  \A body \in resp'.request :
                      (~UnknownCode(body.productCode) /\ body.towerLocation \in TwoDigits)
                          => /\ \E pico \in picos' \ picos : picos' = picos \cup {pico}
                             /\ activityLog' = activityLog
            /\ resp'.route = "DELETE /api/picos/:id" =>
                  \A r \in resp'.request :
                      /\ \E p \in picos : p.id = r.id /\ picos' = picos \ {p}
                      /\ activityLog' = activityLog
            /\ resp'.route = "DELETE /api/paletizado-stock/:id" =>
                  /\ \E k \in stock : stock' = stock \ {k}
                  /\ activityLog' = activityLog
            /\ (resp'.route = "POST /api/paletizado-stock" /\ req[resp'.session].pc = "log") =>
                  /\ stock' = stock
                  /\ req[resp'.session].stock \subseteq stock'
                  /\ activityLog' = activityLog
       /\ (\E s \in Sessions : req[s].pc = "log" /\ req'[s].pc = "idle" /\ resp' = resp) =>
            (stock' = stock /\ activityLog' = activityLog)]_vars

\* A POST /api/picos was answered 400 and its pico is stored, while the log is
\* empty.
C19_Witness ==
    /\ resp.route = "POST /api/picos"
    /\ resp.status = 400
    /\ \E body \in resp.request : body.towerLocation = "01" /\ ~UnknownCode(body.productCode)
    /\ picos # {}
    /\ activityLog = << >>

\* The table a list route reads, and the ids of the rows in its last response.
ListedTable ==
    CASE resp.route = "GET /api/users" -> "users"
      [] resp.route = "GET /api/products" -> "products"
      [] resp.route = "GET /api/picos" -> "picos"
      [] resp.route = "GET /api/paletizado-stock" -> "paletizado_stock"
      [] OTHER -> "none"

ListedIds ==
    CASE resp.route = "GET /api/users" -> {u.id : u \in resp.users}
      [] resp.route = "GET /api/products" -> {p.id : p \in resp.rows}
      [] resp.route = "GET /api/picos" -> {r.row.id : r \in resp.rows}
      [] resp.route = "GET /api/paletizado-stock" -> {r.row.id : r \in resp.rows}
      [] OTHER -> {}

C21_SumIsAProductCount ==
    [][\A s \in Sessions :
          (req[s].pc = "stats" /\ req'[s].pc = "idle") =>
              \A r \in resp'.rows : r.altaRotacao + r.baixaRotacao \in seenCounts]_vars

\* C23: apiRequest throws an ApiError with the HTTP status and the parsed body
\* for every non-2xx response, throws for every response that is not
\* application/json, and returns a value only for a 2xx response.
C23_ErrorsAreThrown ==
    \A r \in fetched.response : \A o \in fetched.outcome :
        /\ ~ResponseOk(r.status) =>
               (o.kind = "throw" /\ o.name = "ApiError"
                /\ o.statusCode = r.status /\ o.details = r.body)
        /\ ~IncludesJson(r.contentType) => o.kind = "throw"
        /\ o.kind = "return" => ResponseOk(r.status)

\* C24 as claimed: GET /api/users on a session that holds a userId answers 200
\* with the user list, whatever the user's role.
C24_Original ==
    [][(/\ resp'.route = "GET /api/users"
        /\ session[resp'.session].userId # NoUserId) => resp'.status = 200]_vars

\* C24: GET /api/users demands the administrator role like the write operations
\* on /api/users: a session whose user is not an administrador gets 403 and no
\* user list, and an administrador's session gets every user, without password.
C24_UserListAdminOnly ==
    [][(/\ resp'.route = "GET /api/users"
        /\ session[resp'.session].userId # NoUserId) =>
            IF \E u \in session[resp'.session].user : u.role = "administrador"
            THEN /\ resp'.status = 200
                 /\ {u.id : u \in resp'.users} = {u.id : u \in users}
                 /\ \A u \in resp'.users : "password" \notin DOMAIN u
            ELSE resp'.status = 403 /\ resp'.users = {}]_vars

\* The warehouse worker asked for the user list and got 403.
C24_Witness ==
    /\ resp.route = "GET /api/users"
    /\ resp.status = 403
    /\ resp.users = {}
    /\ \E u \in session[resp.session].user : u.role = "armazenista"

\* C25: the activity log is append-only: every step keeps the rows the log
\* already has, unchanged and in their order, and at most adds rows after them.
C25_LogAppendOnly ==
    [][/\ Len(activityLog') >= Len(activityLog)
       /\ SubSeq(activityLog', 1, Len(activityLog)) = activityLog]_vars

\* An exit row was added to a log that held an entry row, which is still there.
C25_Witness ==
    /\ Len(activityLog) = 2
    /\ activityLog[1].type = "entry"
    /\ activityLog[2].type = "exit"

\* What the server answers to the query of a key, for the tables as they are.
ServerResult(key) ==
    CASE key = "/api/products" -> products
      [] key = "/api/picos" -> getAllPicos
      [] key = "/api/paletizado-stock" -> getAllPaletizadoStock
      [] key = "/api/dashboard/stats" -> {getDashboardStats}

\* C22: once the browser has handled the response of its mutating call, no
\* cached query result that the call made out of date is left valid: every
\* cached result that is not invalidated is what the server would answer now.
C22_ChangedQueriesInvalidated ==
    Settled =>
        \A key \in {"/api/products", "/api/picos", "/api/dashboard/stats"} :
            \A e \in client.cache[key] : ~e.isInvalidated => e.data = ServerResult(key)

\* C26: a logout that answers 200 leaves the session without a user; GET
\* /api/auth/user on a session without a user answers 401; and when the browser
\* handles the logout's outcome, success or failure, its query cache is emptied.
C26_LogoutClears ==
    [][/\ (resp'.route = LogoutRoute /\ resp'.status = 200 /\ resp' # resp) =>
              session'[resp'.session] = NoSession
       /\ (/\ resp'.route = "GET /api/auth/user"
           /\ resp' # resp
           /\ session[resp'.session] = NoSession) => resp'.status = 401
       /\ (resp.route = LogoutRoute /\ resp'.route = "none") =>
              client'.cache = EmptyCache]_vars

\* After a logout whose response the browser has handled, GET /api/auth/user
\* with the same cookie answered 401, and nothing is cached.
C26_Witness ==
    /\ resp.route = "GET /api/auth/user"
    /\ resp.status = 401
    /\ session[resp.session] = NoSession
    /\ client.toast = "Logout realizado"
    /\ client.cache = EmptyCache

\* C30: the Pico form reports a create as successful, invalidates the caches
\* and closes the dialog only for a create the server answered with the stored
\* Pico; a 400 answer is shown as an error.
C30_RefusedCreateIsError ==
    [][(resp.route = "POST /api/picos" /\ resp'.route = "none") =>
          /\ client'.toast = "Pico criado" => (resp.status = 200 /\ resp.rows # {})
          /\ resp.status = 400 =>
                 (client'.dialog = client.dialog /\ client'.cache = client.cache)]_vars

\* C27: an admin-only route answers 200 only to a session whose user is, when
\* the request arrives, a row of the users table with role administrador.
C27_AdminIsCurrent ==
    [][(/\ resp' # resp
        /\ resp'.route \in AdminWriteRoutes \cup {"GET /api/users"}
        /\ resp'.status = 200) =>
            \E u \in users : /\ u.id = session[resp'.session].userId
                             /\ u.role = "administrador"]_vars

\* C28: no pico and no stock row gets more than one exit row: the log never
\* holds more exit rows than picos and stock rows have been created.
C28_OneExitPerRow ==
    Cardinality({i \in 1..Len(activityLog) : activityLog[i].type = "exit"})
        <= (serial.picos - 1) + (serial.stock - 1)

\* C29: every pico and every stock row references a stored product; a step
\* removes a product only when no pico and no stock row references it (the
\* DELETE of a referenced product answers 400); so GET /api/picos and GET
\* /api/paletizado-stock return every stored row, and totalPicos and
\* totalPaletizados are the lengths of those lists.
C29_RowsReferenceProducts ==
    [][/\ \A p \in picos' : \E q \in products' : q.id = p.productId
       /\ \A k \in stock' : \E q \in products' : q.id = k.productId
       /\ \A q \in products :
              (\A n \in products' : n.id # q.id) =>
                  /\ \A p \in picos : p.productId # q.id
                  /\ \A k \in stock : k.productId # q.id
       /\ (/\ resp' # resp
           /\ resp'.route = "DELETE /api/products/:id"
           /\ resp'.status = 400) => products' = products
       /\ (resp' # resp /\ resp'.route = "GET /api/picos" /\ resp'.status = 200) =>
              {r.row : r \in resp'.rows} = picos
       /\ (resp' # resp /\ resp'.route = "GET /api/paletizado-stock"
           /\ resp'.status = 200) => {r.row : r \in resp'.rows} = stock
       /\ (resp' # resp /\ resp'.route = "GET /api/dashboard/stats"
           /\ resp'.status = 200) =>
              \A r \in resp'.rows : /\ r.totalPicos = Cardinality(getAllPicos)
                                     /\ r.totalPaletizados = Cardinality(getAllPaletizadoStock)]_vars

\* The DELETE of a product that a pico and a stock row reference answered 400,
\* and the product and the rows are still stored.
C29_Witness ==
    /\ resp.route = "DELETE /api/products/:id"
    /\ resp.status = 400
    /\ \E p \in picos : \E q \in products : q.id = p.productId
    /\ \E k \in stock : \E q \in products : q.id = k.productId

====
